---- MODULE Spec2Model ----
(***************************************************************************)
(* Model of the ADDM graph pipeline: the root resolver of                  *)
(* services/data_processor.py (find_root_nodes, build_parent_map,          *)
(* find_node_roots and its inner find_root), its property parser, label    *)
(* expander and report builder, the request handlers of app.py that run    *)
(* them (process_data, step 3 of run_complete_pipeline), and               *)
(* start_cartography_container of services/docker_manager.py.              *)
(***************************************************************************)
EXTENDS Integers, Sequences, FiniteSets, TLC

\* ------------------------------------------------------------------ bounds
\* Ids that may occur in the export. The code compares ids for equality only,
\* so the node ids are taken to be 1..k for some k <= MaxId; the ids above k
\* occur only as dangling edge endpoints.
MaxId == 3
\* Largest number of rows of the relationships table.
MaxEdges == 3

\* Concurrent requests in flight, and the size of the graphs Neo4j may hold
\* while they run.
MaxRequests == 2
DbMaxId == 2
DbMaxEdges == 1

\* Longest free-form text of a properties(n) cell, in lexical atoms.
MaxBlob == 4

Ids == 1..MaxId
EdgeRows == [source_id : Ids, target_id : Ids]
EdgeTables == UNION {[1..k -> EdgeRows] : k \in 0..MaxEdges}
EmptyMap == [x \in {} |-> 0]

\* ------------------------------------------------------------------ state
VARIABLES
    nodes_df,          \* the ids of column id(n) of the nodes table
    relationships_df,  \* the rows of the relationships table, in file order
    root_nodes,        \* local of find_node_roots
    parent_map,        \* local of find_node_roots: target -> list of sources
    memo,              \* local of find_node_roots
    node_to_root,      \* self.node_to_root
    pc,                \* position in find_node_roots: "idle" before the call,
                       \* "loop" in the for loop, "bfs" in the while loop of
                       \* find_root, "done" after log_completion
    todo,              \* node ids the for loop has not passed to find_root yet
    n,                 \* argument of the running find_root call
    visited,           \* local of find_root
    queue,             \* local of find_root
    adds,              \* per id, how often this traversal ran visited.add(id)
    puts,              \* per id, how often this traversal put id on the queue
    order,             \* the iteration order of set(nodes_df['id(n)'].unique());
                       \* <<>> leaves the order open
    run,               \* which call of find_node_roots on this DataProcessor runs
    first,             \* node_to_root as the first call left it
    db,                \* the graph Neo4j holds: [nodes, rels]
    fs,                \* the files of config.OUTPUT_DIR; <<>> is a missing file,
                       \* <<c>> a file with content c
    req,               \* per request: the locals of its handler
    prop_string,       \* argument of parse_properties: a cell of properties(n)
    returned,          \* what parse_properties returned, or that it raised
    ppc,               \* position of the caller, process_nodes lines 66-67
    node_rows,         \* the rows of the nodes table: id(n), labels(n), properties(n)
    parsed_nodes,      \* self.parsed_nodes: the ExpandedRows, in order
    node_to_name,      \* local of create_excel_by_labels
    sheets,            \* the label workbook: sheet name -> rows
    result_df,         \* the rows of the root-mapping table
    rpc,               \* which DataProcessor method has returned last
    cwd,               \* os.getcwd() of the process, a list of path components
    dirs,              \* the directories that exist, as absolute paths
    downloaded,        \* download_to_filename (line 160) has returned
    waited_seconds,    \* local of wait_for_container_completion
    dkpc               \* position in start_cartography_container

resolver == <<nodes_df, relationships_df, root_nodes, parent_map, memo, node_to_root,
              pc, todo, n, visited, queue, adds, puts, order, run, first>>
pipeline == <<db, fs, req>>
parser == <<prop_string, returned, ppc>>
report == <<node_rows, parsed_nodes, node_to_name, sheets, result_df, rpc>>
docker == <<cwd, dirs, downloaded, waited_seconds, dkpc>>
vars == <<resolver, pipeline, parser, report, docker>>

\* ------------------------------------------------------------ pure helpers
TargetIds(rels) == {rels[i].target_id : i \in DOMAIN rels}
SourceIds(rels) == {rels[i].source_id : i \in DOMAIN rels}

\* variant: all_nodes taken from the edge endpoints as well
RootsAmongAllIds(nodes, rels) == (nodes \cup SourceIds(rels)) \ TargetIds(rels)
\* find_root_nodes: all_nodes - target_nodes
find_root_nodes(nodes, rels) == nodes \ TargetIds(rels)

\* build_parent_map: parent_map[target].append(source), row by row
RowsInto(rels, t) == SelectSeq(rels, LAMBDA e : e.target_id = t)
\* variant: the map built in the other direction, source -> targets
RowsFrom(rels, t) == SelectSeq(rels, LAMBDA e : e.source_id = t)
ChildMap(rels) ==
    [t \in SourceIds(rels) |->
        [j \in 1..Len(RowsFrom(rels, t)) |-> RowsFrom(rels, t)[j].target_id]]
\* build_parent_map proper
build_parent_map(rels) ==
    [t \in TargetIds(rels) |->
        [j \in 1..Len(RowsInto(rels, t)) |-> RowsInto(rels, t)[j].source_id]]

\* variant: only the first parent of curr is followed
FirstParentOf(pm, curr) == IF curr \in DOMAIN pm THEN SubSeq(pm[curr], 1, 1) ELSE <<>>
\* parent_map.get(curr, [])
ParentsOf(pm, curr) == IF curr \in DOMAIN pm THEN pm[curr] ELSE <<>>

\* variant: the memo of the previous call is kept
KeepMemo(old) == old
\* memo = {}
FreshMemo(old) == EmptyMap

\* variant: the visited ids, the root found among them, are memoized to a
\* visited id below that root
CompressToDescendant(m, vis, curr) ==
    [v \in (DOMAIN m) \cup vis |->
        IF v \in vis THEN (CHOOSE s \in vis : s # curr \/ vis = {curr}) ELSE m[v]]
\* variant: the root is added to visited only after the compression
CompressBelowRoot(m, vis, curr) ==
    [v \in (DOMAIN m) \cup (vis \ {curr}) |-> IF v \in vis THEN curr ELSE m[v]]
\* for v in visited: memo[v] = curr
Compress(m, vis, curr) ==
    [v \in (DOMAIN m) \cup vis |-> IF v \in vis THEN curr ELSE m[v]]

\* memo[k] = v
Put(m, k, v) == [x \in (DOMAIN m) \cup {k} |-> IF x = k THEN v ELSE m[x]]

\* variant: a node that resolves to itself gets no entry
RecordUnlessSelf(ntr, node_id, root) ==
    IF root = node_id THEN ntr ELSE Put(ntr, node_id, root)
\* self.node_to_root[node_id] = find_root(node_id)
Record(ntr, node_id, root) == Put(ntr, node_id, root)

\* variant: the visited check left out
NeverVisited(vis, curr) == FALSE
\* if curr in visited: continue
AlreadyVisited(vis, curr) == curr \in vis

\* variant: the fallback returns a node the traversal saw, not its start
FallbackLastSeen(start, vis) ==
    IF vis \ {start} = {} THEN start ELSE CHOOSE v \in vis \ {start} : TRUE
\* the value find_root memoizes and returns when the queue runs empty: n
Fallback(start, vis) == start

ZeroCount == [i \in Ids |-> 0]
Bump(f, i) == [f EXCEPT ![i] = @ + 1]
RECURSIVE BumpAll(_, _)
BumpAll(f, s) == IF s = <<>> THEN f ELSE BumpAll(Bump(f, Head(s)), Tail(s))

\* ------------------------------------------------------------------ Init
\* no request in flight, OUTPUT_DIR empty
Requests == 1..MaxRequests
NoFile == <<>>
EmptyDir == [export0 |-> NoFile, export1 |-> NoFile,
             nodes_excel |-> NoFile, mapping_excel |-> NoFile]
NoRequest == [pc |-> "none", my_nodes |-> {}, my_rels |-> <<>>, nodes_df |-> {},
              relationships_df |-> <<>>, node_to_root |-> EmptyMap, wrote |-> {}]
PipelineIdle ==
    /\ db = [nodes |-> {}, rels |-> <<>>]
    /\ fs = EmptyDir
    /\ req = [r \in Requests |-> NoRequest]

\* no cell is being parsed
ParserIdle ==
    /\ prop_string = [type |-> "nan", text |-> <<>>]
    /\ returned = [kind |-> "none", map |-> EmptyMap, val |-> <<>>]
    /\ ppc = "off"

\* start_cartography_container is not running
DockerIdle ==
    /\ cwd = <<"/">>
    /\ dirs = {}
    /\ downloaded = FALSE
    /\ waited_seconds = 0
    /\ dkpc = "off"

\* no DataProcessor is producing tables
ReportIdle ==
    /\ node_rows = <<>>
    /\ parsed_nodes = <<>>
    /\ node_to_name = EmptyMap
    /\ sheets = EmptyMap
    /\ result_df = <<>>
    /\ rpc = "off"

Init ==
    /\ \E k \in 0..MaxId : nodes_df = 1..k
    /\ relationships_df \in EdgeTables
    /\ root_nodes = {}
    /\ parent_map = EmptyMap
    /\ memo = EmptyMap
    /\ node_to_root = EmptyMap
    /\ pc = "idle"
    /\ todo = {}
    /\ n = 0
    /\ visited = {}
    /\ queue = <<>>
    /\ adds = ZeroCount
    /\ puts = ZeroCount
    /\ order = <<>>
    /\ run = 1
    /\ first = EmptyMap
    /\ PipelineIdle
    /\ ParserIdle
    /\ DockerIdle
    /\ ReportIdle

\* --------------------------------------------------------- find_node_roots
\* for node_id in set(...): node_id is the next id the loop yields
IsNext(node_id) ==
    /\ node_id \in todo
    /\ order # <<>> => node_id = order[Cardinality(nodes_df \ todo) + 1]

\* lines 103-105: root_nodes, parent_map, memo = {}
FindNodeRootsStart ==
    /\ pc = "idle"
    /\ root_nodes' = find_root_nodes(nodes_df, relationships_df)
    /\ parent_map' = build_parent_map(relationships_df)
    /\ memo' = FreshMemo(memo)
    /\ todo' = nodes_df
    /\ pc' = "loop"
    /\ UNCHANGED <<docker, nodes_df, relationships_df, node_to_root, n, visited, queue, adds, puts, order, run, first, pipeline, parser, report>>

\* find_root(node_id), first branch: if n in memo: return memo[n]
FindRootMemoized(node_id) ==
    /\ pc = "loop"
    /\ IsNext(node_id)
    /\ node_id \in DOMAIN memo
    /\ node_to_root' = Record(node_to_root, node_id, memo[node_id])
    /\ todo' = todo \ {node_id}
    /\ UNCHANGED <<docker, nodes_df, relationships_df, root_nodes, parent_map, memo, pc,
                   n, visited, queue, adds, puts, order, run, first, pipeline, parser, report>>

\* find_root(node_id), second branch: if n in root_nodes: memo[n] = n; return n
FindRootIsRoot(node_id) ==
    /\ pc = "loop"
    /\ IsNext(node_id)
    /\ node_id \notin DOMAIN memo
    /\ node_id \in root_nodes
    /\ memo' = Put(memo, node_id, node_id)
    /\ node_to_root' = Record(node_to_root, node_id, node_id)
    /\ todo' = todo \ {node_id}
    /\ UNCHANGED <<docker, nodes_df, relationships_df, root_nodes, parent_map, pc,
                   n, visited, queue, adds, puts, order, run, first, pipeline, parser, report>>

\* find_root(node_id): visited = set(); queue = deque([n])
FindRootTraverse(node_id) ==
    /\ pc = "loop"
    /\ IsNext(node_id)
    /\ node_id \notin DOMAIN memo
    /\ node_id \notin root_nodes
    /\ n' = node_id
    /\ visited' = {}
    /\ queue' = <<node_id>>
    /\ adds' = ZeroCount
    /\ puts' = Bump(ZeroCount, node_id)
    /\ pc' = "bfs"
    /\ UNCHANGED <<docker, nodes_df, relationships_df, root_nodes, parent_map, memo,
                   node_to_root, todo, order, run, first, pipeline, parser, report>>

\* one pass of the while loop: curr = queue.popleft(); curr in visited: continue
BfsSkip ==
    /\ pc = "bfs"
    /\ queue # <<>>
    /\ AlreadyVisited(visited, Head(queue))
    /\ queue' = Tail(queue)
    /\ UNCHANGED <<docker, nodes_df, relationships_df, root_nodes, parent_map, memo,
                   node_to_root, pc, todo, n, visited, adds, puts, order, run, first, pipeline, parser, report>>

\* one pass of the while loop: curr is new and is a root: compress and return
BfsFoundRoot ==
    /\ pc = "bfs"
    /\ queue # <<>>
    /\ ~AlreadyVisited(visited, Head(queue))
    /\ Head(queue) \in root_nodes
    /\ LET curr == Head(queue) IN
        /\ visited' = visited \cup {curr}
        /\ adds' = Bump(adds, curr)
        /\ memo' = Compress(memo, visited \cup {curr}, curr)
        /\ node_to_root' = Record(node_to_root, n, curr)
    /\ queue' = Tail(queue)
    /\ todo' = todo \ {n}
    /\ pc' = "loop"
    /\ UNCHANGED <<docker, nodes_df, relationships_df, root_nodes, parent_map, n, puts,
                   order, run, first, pipeline, parser, report>>

\* one pass of the while loop: curr is new and no root: queue.extend(parents)
BfsExpand ==
    /\ pc = "bfs"
    /\ queue # <<>>
    /\ ~AlreadyVisited(visited, Head(queue))
    /\ Head(queue) \notin root_nodes
    /\ LET curr == Head(queue) IN
        /\ visited' = visited \cup {curr}
        /\ adds' = Bump(adds, curr)
        /\ queue' = Tail(queue) \o ParentsOf(parent_map, curr)
        /\ puts' = BumpAll(puts, ParentsOf(parent_map, curr))
    /\ UNCHANGED <<docker, nodes_df, relationships_df, root_nodes, parent_map, memo,
                   node_to_root, pc, todo, n, order, run, first, pipeline, parser, report>>

\* the while loop ends with the queue empty: memo[n] = n; return n
BfsExhausted ==
    /\ pc = "bfs"
    /\ queue = <<>>
    /\ memo' = Put(memo, n, Fallback(n, visited))
    /\ node_to_root' = Record(node_to_root, n, Fallback(n, visited))
    /\ todo' = todo \ {n}
    /\ pc' = "loop"
    /\ UNCHANGED <<docker, nodes_df, relationships_df, root_nodes, parent_map, n,
                   visited, queue, adds, puts, order, run, first, pipeline, parser, report>>

\* the for loop has passed every node id: log_completion
FindNodeRootsEnd ==
    /\ pc = "loop"
    /\ todo = {}
    /\ pc' = "done"
    /\ UNCHANGED <<docker, nodes_df, relationships_df, root_nodes, parent_map, memo,
                   node_to_root, todo, n, visited, queue, adds, puts, order, run, first, pipeline, parser, report>>

Next ==
    \/ FindNodeRootsStart
    \/ \E node_id \in Ids : FindRootMemoized(node_id)
    \/ \E node_id \in Ids : FindRootIsRoot(node_id)
    \/ \E node_id \in Ids : FindRootTraverse(node_id)
    \/ BfsSkip
    \/ BfsFoundRoot
    \/ BfsExpand
    \/ BfsExhausted
    \/ FindNodeRootsEnd

Spec == Init /\ [][Next]_vars

\* find_node_roots is straight-line code on one thread: it keeps running
\* until it returns.
LiveSpec == Spec /\ WF_vars(Next)

\* ------------------------------------------- a second call on the same object
Perms(S) ==
    {s \in [1..Cardinality(S) -> S] : \A i, j \in DOMAIN s : i # j => s[i] # s[j]}

InitTwice ==
    /\ \E k \in 0..MaxId : nodes_df = 1..k
    /\ relationships_df \in EdgeTables
    /\ order \in Perms(nodes_df)
    /\ root_nodes = {}
    /\ parent_map = EmptyMap
    /\ memo = EmptyMap
    /\ node_to_root = EmptyMap
    /\ pc = "idle"
    /\ todo = {}
    /\ n = 0
    /\ visited = {}
    /\ queue = <<>>
    /\ adds = ZeroCount
    /\ puts = ZeroCount
    /\ run = 1
    /\ first = EmptyMap
    /\ PipelineIdle
    /\ ParserIdle
    /\ DockerIdle
    /\ ReportIdle

\* the caller calls find_node_roots again; nodes_df, relationships_df and
\* self.node_to_root (set in __init__ only) are as the first call left them
Rerun ==
    /\ pc = "done"
    /\ run = 1
    /\ run' = 2
    /\ first' = node_to_root
    /\ pc' = "idle"
    /\ UNCHANGED <<docker, nodes_df, relationships_df, root_nodes, parent_map, memo,
                   node_to_root, todo, n, visited, queue, adds, puts, order,
                   pipeline, parser, report>>

NextTwice == Next \/ Rerun

SpecTwice == InitTwice /\ [][NextTwice]_vars

\* ------------------------------------- find_node_roots as one pure function
\* the while loop of find_root, run to its return: [memo, root]
RECURSIVE Walk(_, _, _, _, _, _)
Walk(pm, roots, m, start, vis, q) ==
    IF q = <<>>
    THEN [memo |-> Put(m, start, Fallback(start, vis)), root |-> Fallback(start, vis)]
    ELSE IF AlreadyVisited(vis, Head(q))
    THEN Walk(pm, roots, m, start, vis, Tail(q))
    ELSE IF Head(q) \in roots
    THEN [memo |-> Compress(m, vis \cup {Head(q)}, Head(q)), root |-> Head(q)]
    ELSE Walk(pm, roots, m, start, vis \cup {Head(q)},
              Tail(q) \o ParentsOf(pm, Head(q)))

find_root(pm, roots, m, node_id) ==
    IF node_id \in DOMAIN m THEN [memo |-> m, root |-> m[node_id]]
    ELSE IF node_id \in roots
    THEN [memo |-> Put(m, node_id, node_id), root |-> node_id]
    ELSE Walk(pm, roots, m, node_id, {}, <<node_id>>)

\* the for loop of find_node_roots over the ids in the order ord
RECURSIVE ResolveLoop(_, _, _, _, _)
ResolveLoop(pm, roots, m, ntr, ord) ==
    IF ord = <<>> THEN ntr
    ELSE LET r == find_root(pm, roots, m, Head(ord)) IN
         ResolveLoop(pm, roots, r.memo, Record(ntr, Head(ord), r.root), Tail(ord))

find_node_roots(nodes, rels, ntr, ord) ==
    ResolveLoop(build_parent_map(rels), find_root_nodes(nodes, rels),
                FreshMemo(EmptyMap), ntr, ord)

Ascending(S) == CHOOSE s \in Perms(S) : \A i, j \in DOMAIN s : i < j => s[i] < s[j]

\* ------------------------------------------------ the request handlers
\* The graphs Neo4j may hold: node ids 1..k, rows over the ids 1..DbMaxId.
DbIds == 1..DbMaxId
DbGraphs ==
    {[nodes |-> 1..k, rels |-> t] :
        k \in 1..DbMaxId,
        t \in UNION {[1..m -> [source_id : DbIds, target_id : DbIds]] :
                       m \in 0..DbMaxEdges}}

InitPipe ==
    /\ nodes_df = {}
    /\ relationships_df = <<>>
    /\ root_nodes = {}
    /\ parent_map = EmptyMap
    /\ memo = EmptyMap
    /\ node_to_root = EmptyMap
    /\ pc = "off"
    /\ todo = {}
    /\ n = 0
    /\ visited = {}
    /\ queue = <<>>
    /\ adds = ZeroCount
    /\ puts = ZeroCount
    /\ order = <<>>
    /\ run = 1
    /\ first = EmptyMap
    /\ db \in DbGraphs
    /\ fs = EmptyDir
    /\ req = [r \in Requests |-> NoRequest]
    /\ ParserIdle
    /\ DockerIdle
    /\ ReportIdle

\* except Exception as e: ... return jsonify({"status": "error", ...}), 500
Failed(r) == req' = [req EXCEPT ![r].pc = "error"]

\* variant: self-mappings are kept
AllPairs(ntr) == {<<x, ntr[x]>> : x \in DOMAIN ntr}
\* mapping_data: the pairs (n, r) of node_to_root with n != r
mapping_data(ntr) == {<<x, ntr[x]>> : x \in {y \in DOMAIN ntr : ntr[y] # y}}

\* process_data up to the construction of the exporter
ProcessDataBegin(r) ==
    /\ req[r].pc = "none"
    /\ req' = [req EXCEPT ![r].pc = "export_nodes"]
    /\ UNCHANGED <<docker, resolver, parser, report, db, fs>>

\* run_complete_pipeline, steps 1 and 2: the configuration is uploaded and
\* the containers run; cartography leaves the graph g in Neo4j
RunCompletePipelineBegin(r, raises, g) ==
    /\ req[r].pc = "none"
    /\ IF raises
       THEN Failed(r) /\ UNCHANGED db
       ELSE /\ db' = g
            /\ req' = [req EXCEPT ![r].pc = "export_nodes"]
    /\ UNCHANGED <<docker, resolver, parser, report, fs>>

\* export_data_to_csv: connect, then export_nodes writes export0.csv
ExportNodes(r, raises) ==
    /\ req[r].pc = "export_nodes"
    /\ IF raises
       THEN Failed(r) /\ UNCHANGED fs
       ELSE /\ fs' = [fs EXCEPT !.export0 = <<db.nodes>>]
            /\ req' = [req EXCEPT ![r].pc = "export_rels", ![r].my_nodes = db.nodes]
    /\ UNCHANGED <<docker, resolver, parser, report, db>>

\* export_data_to_csv: export_relationships writes export1.csv
ExportRelationships(r, raises) ==
    /\ req[r].pc = "export_rels"
    /\ IF raises
       THEN Failed(r) /\ UNCHANGED fs
       ELSE /\ fs' = [fs EXCEPT !.export1 = <<db.rels>>]
            /\ req' = [req EXCEPT ![r].pc = "load", ![r].my_rels = db.rels]
    /\ UNCHANGED <<docker, resolver, parser, report, db>>

\* DataProcessor(...).load_data(): read_csv of export0.csv and export1.csv
LoadData(r, raises) ==
    /\ req[r].pc = "load"
    /\ IF raises \/ fs.export0 = NoFile \/ fs.export1 = NoFile
       THEN Failed(r)
       ELSE req' = [req EXCEPT ![r].pc = "process",
                               ![r].nodes_df = fs.export0[1],
                               ![r].relationships_df = fs.export1[1]]
    /\ UNCHANGED <<docker, resolver, parser, report, db, fs>>

\* process_nodes
ProcessNodes(r, raises) ==
    /\ req[r].pc = "process"
    /\ IF raises THEN Failed(r) ELSE req' = [req EXCEPT ![r].pc = "roots"]
    /\ UNCHANGED <<docker, resolver, parser, report, db, fs>>

\* find_node_roots, the loop taking the order ord
FindNodeRoots(r, raises, ord) ==
    /\ req[r].pc = "roots"
    /\ ord \in Perms(req[r].nodes_df)
    /\ IF raises
       THEN Failed(r)
       ELSE req' = [req EXCEPT ![r].pc = "labels",
                               ![r].node_to_root =
                                   find_node_roots(req[r].nodes_df,
                                                   req[r].relationships_df,
                                                   req[r].node_to_root, ord)]
    /\ UNCHANGED <<docker, resolver, parser, report, db, fs>>

\* create_excel_by_labels(nodes_excel): an exception inside the ExcelWriter
\* block leaves what was written so far (partial), one before it leaves nothing
CreateExcelByLabels(r, raises, partial) ==
    /\ req[r].pc = "labels"
    /\ IF raises
       THEN IF partial
            THEN /\ fs' = [fs EXCEPT !.nodes_excel = <<req[r].node_to_root>>]
                 /\ req' = [req EXCEPT ![r].pc = "error",
                                       ![r].wrote = @ \cup {"nodes_excel"}]
            ELSE Failed(r) /\ UNCHANGED fs
       ELSE /\ fs' = [fs EXCEPT !.nodes_excel = <<req[r].node_to_root>>]
            /\ req' = [req EXCEPT ![r].pc = "mapping",
                                  ![r].wrote = @ \cup {"nodes_excel"}]
    /\ UNCHANGED <<docker, resolver, parser, report, db>>

\* create_node_root_mapping_excel(mapping_excel): with no pair to report,
\* mapping_df has no column node_id and the merge on it raises KeyError
CreateNodeRootMappingExcel(r, raises) ==
    /\ req[r].pc = "mapping"
    /\ IF raises \/ mapping_data(req[r].node_to_root) = {}
       THEN Failed(r) /\ UNCHANGED fs
       ELSE /\ fs' = [fs EXCEPT !.mapping_excel =
                                    <<mapping_data(req[r].node_to_root)>>]
            /\ req' = [req EXCEPT ![r].pc = "upload",
                                  ![r].wrote = @ \cup {"mapping_excel"}]
    /\ UNCHANGED <<docker, resolver, parser, report, db>>

\* gcs_manager.upload_output_files, then the success response
UploadOutputFiles(r, raises) ==
    /\ req[r].pc = "upload"
    /\ IF raises THEN Failed(r) ELSE req' = [req EXCEPT ![r].pc = "ok"]
    /\ UNCHANGED <<docker, resolver, parser, report, db, fs>>

NextPipe ==
    \E r \in Requests :
        \/ ProcessDataBegin(r)
        \/ \E raises \in BOOLEAN, g \in DbGraphs : RunCompletePipelineBegin(r, raises, g)
        \/ \E raises \in BOOLEAN : ExportNodes(r, raises)
        \/ \E raises \in BOOLEAN : ExportRelationships(r, raises)
        \/ \E raises \in BOOLEAN : LoadData(r, raises)
        \/ \E raises \in BOOLEAN : ProcessNodes(r, raises)
        \/ \E raises \in BOOLEAN, ord \in UNION {Perms(1..k) : k \in 1..DbMaxId} :
              FindNodeRoots(r, raises, ord)
        \/ \E raises \in BOOLEAN, partial \in BOOLEAN :
              CreateExcelByLabels(r, raises, partial)
        \/ \E raises \in BOOLEAN : CreateNodeRootMappingExcel(r, raises)
        \/ \E raises \in BOOLEAN : UploadOutputFiles(r, raises)

SpecPipe == InitPipe /\ [][NextPipe]_vars

\* --------------------------------------------------------- parse_properties
\* A text is a sequence of lexical atoms: a punctuation character, a blank, or
\* a maximal run of word characters (\w+) such as a, 1 or true.
Q == "\""
NonWord == {"{", "}", "[", "]", ":", ",", Q, " ", "/", "|", "-", ".", "'"}
IsWord(a) == a \notin NonWord
NumberWords == {"0", "1", "2", "3", "4", "5", "6", "7", "8", "9"}

\* str.strip()
RECURSIVE LStrip(_)
LStrip(s) == IF s # <<>> /\ Head(s) = " " THEN LStrip(Tail(s)) ELSE s
RECURSIVE RStrip(_)
RStrip(s) ==
    IF s # <<>> /\ s[Len(s)] = " " THEN RStrip(SubSeq(s, 1, Len(s) - 1)) ELSE s
Strip(s) == RStrip(LStrip(s))

\* re.sub(r'(\w+):', r'"\1":', cleaned)
RECURSIVE QuoteKeys(_)
QuoteKeys(s) ==
    IF s = <<>> THEN <<>>
    ELSE IF Len(s) >= 2 /\ IsWord(s[1]) /\ s[2] = ":"
    THEN <<Q, s[1], Q, ":">> \o QuoteKeys(Tail(Tail(s)))
    ELSE <<Head(s)>> \o QuoteKeys(Tail(s))

\* the character class [^",\{\}\[\]] and the length of the run of it that s
\* starts with
InValue(a) == a \notin {Q, ",", "{", "}", "[", "]"}
RECURSIVE RunLen(_)
RunLen(s) == IF s # <<>> /\ InValue(Head(s)) THEN 1 + RunLen(Tail(s)) ELSE 0

\* re.sub(r':\s*([^",\{\}\[\]]+?)(?=,|\})', ': "<group, stripped>"', cleaned):
\* the group is the whole run after the colon, which must be non-empty and be
\* followed by , or }
RECURSIVE QuoteValues(_)
QuoteValues(s) ==
    IF s = <<>> THEN <<>>
    ELSE IF Head(s) # ":" THEN <<Head(s)>> \o QuoteValues(Tail(s))
    ELSE LET k == RunLen(Tail(s)) IN
         IF k >= 1 /\ Len(s) >= k + 2 /\ s[k + 2] \in {",", "}"}
         THEN <<":", " ", Q>> \o Strip(SubSeq(s, 2, k + 1)) \o <<Q>>
                  \o QuoteValues(SubSeq(s, k + 2, Len(s)))
         ELSE <<":">> \o QuoteValues(Tail(s))

\* str.replace(old, new)
StartsWith(s, old) == Len(s) >= Len(old) /\ SubSeq(s, 1, Len(old)) = old
RECURSIVE Replace(_, _, _)
Replace(s, old, new) ==
    IF s = <<>> THEN <<>>
    ELSE IF StartsWith(s, old)
    THEN new \o Replace(SubSeq(s, Len(old) + 1, Len(s)), old, new)
    ELSE <<Head(s)>> \o Replace(Tail(s), old, new)

\* lines 38-45: the text handed to json.loads
Cleaned(text) ==
    LET c1 == QuoteValues(QuoteKeys(Strip(text)))
        c2 == Replace(c1, <<":", " ", Q, "true", Q>>, <<":", " ", "true">>)
        c3 == Replace(c2, <<":", " ", Q, "false", Q>>, <<":", " ", "false">>)
        c4 == Replace(c3, <<":", " ", Q, "null", Q>>, <<":", " ", "null">>)
    IN Replace(c4, <<":", " ", Q, Q>>, <<":", " ", "null">>)

\* the values json.loads produces, each as a tagged sequence
Str(t) == <<"str">> \o t
Num(w) == <<"num", w>>
Bool(w) == <<"bool", w>>
Null == <<"null">>

\* json.loads: [ok, kind, map, val, next]; a dict is reported with its map,
\* a scalar with its val, a value nested in a dict or list by its kind alone
JFail == [ok |-> FALSE, kind |-> "none", map |-> EmptyMap, val |-> <<>>, next |-> 0]
JOk(kind, map, val, next) ==
    [ok |-> TRUE, kind |-> kind, map |-> map, val |-> val, next |-> next]
Enc(v) == IF v.kind \in {"dict", "list"} THEN <<v.kind>> ELSE v.val

RECURSIVE SkipWs(_, _)
SkipWs(s, i) == IF i <= Len(s) /\ s[i] = " " THEN SkipWs(s, i + 1) ELSE i
RECURSIVE CloseQuote(_, _)
CloseQuote(s, j) ==
    IF j > Len(s) THEN 0 ELSE IF s[j] = Q THEN j ELSE CloseQuote(s, j + 1)

RECURSIVE JValue(_, _)
RECURSIVE JMembers(_, _, _)
RECURSIVE JElements(_, _)
JValue(s, i0) ==
    LET i == SkipWs(s, i0) IN
    IF i > Len(s) THEN JFail
    ELSE IF s[i] = Q
    THEN LET j == CloseQuote(s, i + 1) IN
         IF j = 0 THEN JFail
         ELSE JOk("str", EmptyMap, Str(SubSeq(s, i + 1, j - 1)), j + 1)
    ELSE IF s[i] \in {"true", "false"} THEN JOk("bool", EmptyMap, Bool(s[i]), i + 1)
    ELSE IF s[i] = "null" THEN JOk("null", EmptyMap, Null, i + 1)
    ELSE IF s[i] \in NumberWords THEN JOk("num", EmptyMap, Num(s[i]), i + 1)
    ELSE IF s[i] = "{"
    THEN LET j == SkipWs(s, i + 1) IN
         IF j <= Len(s) /\ s[j] = "}" THEN JOk("dict", EmptyMap, <<>>, j + 1)
         ELSE JMembers(s, j, EmptyMap)
    ELSE IF s[i] = "["
    THEN LET j == SkipWs(s, i + 1) IN
         IF j <= Len(s) /\ s[j] = "]" THEN JOk("list", EmptyMap, <<>>, j + 1)
         ELSE JElements(s, j)
    ELSE JFail
\* "key" : value, then , or }
JMembers(s, i, m) ==
    IF i > Len(s) \/ s[i] # Q THEN JFail
    ELSE LET j == CloseQuote(s, i + 1) IN
         IF j = 0 THEN JFail
         ELSE LET c == SkipWs(s, j + 1) IN
              IF c > Len(s) \/ s[c] # ":" THEN JFail
              ELSE LET v == JValue(s, c + 1) IN
                   IF ~v.ok THEN JFail
                   ELSE LET e == SkipWs(s, v.next)
                            m2 == Put(m, SubSeq(s, i + 1, j - 1), Enc(v))
                        IN IF e > Len(s) THEN JFail
                           ELSE IF s[e] = "," THEN JMembers(s, SkipWs(s, e + 1), m2)
                           ELSE IF s[e] = "}" THEN JOk("dict", m2, <<>>, e + 1)
                           ELSE JFail
\* value, then , or ]
JElements(s, i) ==
    LET v == JValue(s, i) IN
    IF ~v.ok THEN JFail
    ELSE LET e == SkipWs(s, v.next) IN
         IF e > Len(s) THEN JFail
         ELSE IF s[e] = "," THEN JElements(s, e + 1)
         ELSE IF s[e] = "]" THEN JOk("list", EmptyMap, <<>>, e + 1)
         ELSE JFail
json_loads(s) ==
    LET v == JValue(s, 1) IN
    IF v.ok /\ SkipWs(s, v.next) > Len(s) THEN v ELSE JFail

\* what a call returns: the kind of the object, with its map when it is a dict
\* and its val when it is a scalar
Returned(kind, map, val) == [kind |-> kind, map |-> map, val |-> val]
\* a cell of the column properties(n) as read_csv delivers it: NaN when empty,
\* a number or boolean when the whole column holds nothing else, a str otherwise
IsNa(cell) == cell.type = "nan"
IsStr(cell) == cell.type = "str"
IsEmptyBlob(cell) == IsNa(cell) \/ (IsStr(cell) /\ Strip(cell.text) = <<"{", "}">>)
\* line 48
RawProperties(cell) == Put(EmptyMap, <<"raw_properties">>, Str(cell.text))

\* parse_properties for a cell on which line 35 does not raise
parse_properties(cell) ==
    IF IsEmptyBlob(cell) THEN Returned("dict", EmptyMap, <<>>)
    ELSE LET r == json_loads(Cleaned(cell.text)) IN
         IF r.ok THEN Returned(r.kind, r.map, r.val)
         ELSE Returned("dict", RawProperties(cell), <<>>)

\* the cells explored: NaN, a numeric cell, every text of at most MaxBlob
\* atoms with no two words side by side, and the blobs {k: v} and
\* {k: v, k: v} over a few keys and value texts
Atoms == {"{", "}", "[", "]", ":", ",", Q, " ", "a", "1", "true"}
Texts ==
    {t \in UNION {[1..k -> Atoms] : k \in 0..MaxBlob} :
        \A i \in 1..(Len(t) - 1) : ~(IsWord(t[i]) /\ IsWord(t[i + 1]))}
Keys == {"a", "b"}
ValueTexts ==
    {<<"x">>, <<"x", " ", "y">>, <<"1">>, <<"true">>, <<"false">>, <<"null">>,
     <<>>, <<Q, "x", Q>>, <<"[", "1", "]">>}
Entries == {<<k, ":", " ">> \o v : k \in Keys, v \in ValueTexts}
Blobs ==
    {<<"{">> \o e \o <<"}">> : e \in Entries}
        \cup {<<"{">> \o e \o <<",", " ">> \o f \o <<"}">> : e \in Entries, f \in Entries}
\* blobs whose key is also the name of a column that process_nodes sets
ColumnKeys == {"node_id", "primary_label", "all_labels"}
ColumnBlobs == {<<"{", k, ":", " ">> \o v \o <<"}">> : k \in ColumnKeys, v \in ValueTexts}
Cells ==
    {[type |-> "nan", text |-> <<>>], [type |-> "int", text |-> <<"1">>]}
        \cup {[type |-> "str", text |-> t] : t \in Texts \cup Blobs \cup ColumnBlobs}

\* ------------------------------------------------- the tables of the report
\* A label is a sequence of characters.
SheetNameMax == 31
Unknown == <<"U", "n", "k", "n", "o", "w", "n">>
UnknownLabel == <<"U", "n", "k", "n", "o", "w", "n", "_", "L", "a", "b", "e", "l">>

\* str.strip(chars)
RECURSIVE LStripIn(_, _)
LStripIn(s, C) == IF s # <<>> /\ Head(s) \in C THEN LStripIn(Tail(s), C) ELSE s
RECURSIVE RStripIn(_, _)
RStripIn(s, C) ==
    IF s # <<>> /\ s[Len(s)] \in C THEN RStripIn(SubSeq(s, 1, Len(s) - 1), C) ELSE s
StripIn(s, C) == RStripIn(LStripIn(s, C), C)

\* str.split(d)
Contains(s, d) == \E i \in DOMAIN s : s[i] = d
RECURSIVE Split(_, _)
Split(s, d) ==
    IF ~Contains(s, d) THEN <<s>>
    ELSE LET i == CHOOSE j \in DOMAIN s : s[j] = d /\ \A k \in 1..(j - 1) : s[k] # d
         IN <<SubSeq(s, 1, i - 1)>> \o Split(SubSeq(s, i + 1, Len(s)), d)
\* list[-1]
Last(ss) == ss[Len(ss)]
\* sep.join(list)
RECURSIVE Join(_, _)
Join(ss, sep) ==
    IF ss = <<>> THEN <<>>
    ELSE IF Len(ss) = 1 THEN ss[1]
    ELSE ss[1] \o <<sep>> \o Join(Tail(ss), sep)
\* the rows of a list of row lists, one after the other
RECURSIVE Concat(_)
Concat(ss) == IF ss = <<>> THEN <<>> ELSE Head(ss) \o Concat(Tail(ss))

\* parse_labels
parse_labels(cell) ==
    IF IsNa(cell) THEN <<Unknown>>
    ELSE LET parts == Split(StripIn(cell.text, {"[", "]"}), ",")
         IN [j \in 1..Len(parts) |-> Strip(parts[j])]

\* lines 66-67 go through for this cell: parse_properties returns a dict
SetsNodeId(cell) == (IsNa(cell) \/ IsStr(cell)) /\ parse_properties(cell).kind = "dict"

\* lines 66-67: properties with properties['node_id'] = node_id
NodeIdKey == <<"node_id">>
Properties(row) ==
    Put(parse_properties(row.properties).map, NodeIdKey, Num(ToString(row.id)))
\* lines 70-75: an entry key: value of the dict literal that ends in
\* **properties; an entry of properties under the same key comes later and
\* replaces the value. A str is held as its text, any other value with its tag.
PrimaryLabelKey == <<"primary_label">>
AllLabelsKey == <<"all_labels">>
Entry(properties, key, value) ==
    LET v == IF key \in DOMAIN properties THEN properties[key] ELSE Str(value)
    IN IF v[1] = "str" THEN Tail(v) ELSE v
\* lines 70-75: the dict appended for one label; props holds the columns that
\* come from properties, node_id among them with the value line 67 gave it
ExpandedRow(node_id, label, labels, properties) ==
    [node_id |-> node_id,
     primary_label |-> Entry(properties, PrimaryLabelKey, label),
     all_labels |-> Entry(properties, AllLabelsKey, Join(labels, "|")),
     props |-> properties]

\* variant: a node is emitted once, under its first label
FirstLabelRow(row) ==
    <<ExpandedRow(row.id, parse_labels(row.labels)[1], parse_labels(row.labels),
                  Properties(row))>>
\* lines 64-75: the ExpandedRows of one row of the nodes table
ExpandedRows(row) ==
    [j \in 1..Len(parse_labels(row.labels)) |->
        ExpandedRow(row.id, parse_labels(row.labels)[j], parse_labels(row.labels),
                    Properties(row))]

\* lines 150-161: the display name of the node of an ExpandedRow
NameKey == <<"name">>
ArnKey == <<"arn">>
\* pd.notna(row.get(key, None))
Notna(row, key) == key \in DOMAIN row.props /\ row.props[key] # Null
\* key in row: the DataFrame has the column
HasColumn(pn, key) == \E i \in DOMAIN pn : key \in DOMAIN pn[i].props
\* bool(value) of a string, boolean, number or None
Truthy(v) ==
    IF v[1] = "str" THEN Len(v) > 1
    ELSE IF v[1] = "bool" THEN v[2] = "true"
    ELSE IF v[1] = "num" THEN v[2] # "0"
    ELSE FALSE
\* str(value)
TextOf(v) == IF v[1] = "str" THEN Tail(v) ELSE <<v[Len(v)]>>
ArnText(row) == IF ArnKey \in DOMAIN row.props THEN TextOf(row.props[ArnKey]) ELSE <<"nan">>
display_name(pn, row) ==
    LET name == IF Notna(row, NameKey) THEN row.props[NameKey] ELSE Null
        arn == ArnText(row)
        named == IF ~Truthy(name) /\ HasColumn(pn, ArnKey)
                 THEN IF Contains(arn, "/") THEN Str(Last(Split(arn, "/")))
                      ELSE IF Contains(arn, ":") THEN Str(Last(Split(arn, ":")))
                      ELSE name
                 ELSE name
    IN IF Truthy(named) THEN TextOf(named) ELSE <<"Node_", ToString(row.node_id)>>
\* node_to_name: the first ExpandedRow of every node id decides
FirstRow(pn, id) ==
    pn[CHOOSE i \in DOMAIN pn :
          pn[i].node_id = id /\ \A k \in 1..(i - 1) : pn[k].node_id # id]
BuildNames(pn) ==
    [id \in {pn[i].node_id : i \in DOMAIN pn} |-> display_name(pn, FirstRow(pn, id))]

\* line 168: re.sub(r'[^\w\-_\. ]', '', str(label))[:31] or "Unknown_Label"
SheetChar(c) == IsWord(c) \/ c \in {"-", ".", " "}
sheet_name(label) ==
    LET kept == SelectSeq(label, SheetChar)
        cut == IF Len(kept) > SheetNameMax THEN SubSeq(kept, 1, SheetNameMax) ELSE kept
    IN IF cut = <<>> THEN UnknownLabel ELSE cut

\* groupby('primary_label') yields the groups in the order of str
Ascii ==
    (" " :> 32) @@ (":" :> 58) @@ ("A" :> 65) @@ ("B" :> 66) @@ ("L" :> 76)
        @@ ("U" :> 85) @@ ("k" :> 107) @@ ("n" :> 110) @@ ("o" :> 111) @@ ("w" :> 119)
RECURSIVE StrLeq(_, _)
StrLeq(a, b) ==
    IF a = <<>> THEN TRUE
    ELSE IF b = <<>> THEN FALSE
    ELSE IF Head(a) = Head(b) THEN StrLeq(Tail(a), Tail(b))
    ELSE Ascii[Head(a)] < Ascii[Head(b)]
PrimaryLabels(pn) == {pn[i].primary_label : i \in DOMAIN pn}

\* variant: the account name is looked up under the node's own id
AccountOfNode(names, node_id, root_id) ==
    IF node_id \in DOMAIN names THEN names[node_id] ELSE <<>>
\* line 176: output_df['root_id'].map(node_to_name); <<>> stands for NaN
AccountName(names, node_id, root_id) ==
    IF root_id \in DOMAIN names THEN names[root_id] ELSE <<>>
\* line 175: output_df['node_id'].map(self.node_to_root); 0 stands for NaN
RootId(ntr, node_id) == IF node_id \in DOMAIN ntr THEN ntr[node_id] ELSE 0
\* the identity columns of the rows of one group
OutputRows(pn, ntr, names, label) ==
    LET group == SelectSeq(pn, LAMBDA r : r.primary_label = label)
    IN [j \in 1..Len(group) |->
           [node_id |-> group[j].node_id,
            root_id |-> RootId(ntr, group[j].node_id),
            account_name |-> AccountName(names, group[j].node_id,
                                         RootId(ntr, group[j].node_id))]]
\* line 189: to_excel into the sheet of that name; a sheet that exists already
\* is written over from its first row
ToExcel(sh, name, rows) ==
    LET old == IF name \in DOMAIN sh THEN sh[name] ELSE <<>>
    IN Put(sh, name,
           rows \o (IF Len(old) > Len(rows) THEN SubSeq(old, Len(rows) + 1, Len(old))
                    ELSE <<>>))
\* lines 167-190: the loop over the groups
RECURSIVE WriteGroups(_, _, _, _, _)
WriteGroups(labels, sh, pn, ntr, names) ==
    IF labels = {} THEN sh
    ELSE LET label == CHOOSE x \in labels : \A y \in labels : StrLeq(x, y)
         IN WriteGroups(labels \ {label},
                        ToExcel(sh, sheet_name(label), OutputRows(pn, ntr, names, label)),
                        pn, ntr, names)

\* lines 204-209: mapping_df, in the order of node_to_root.items()
mapping_df(ntr, ord) == SelectSeq(ord, LAMBDA x : <<x, ntr[x]>> \in mapping_data(ntr))
\* the rows of parsed_nodes with the given node id
Matches(pn, id) == SelectSeq(pn, LAMBDA r : r.node_id = id)
\* line 220: mapping_df.merge(node_labels, on='node_id', how='left')
MergeNodeLabels(ntr, ord, pn) ==
    LET md == mapping_df(ntr, ord) IN
    Concat([i \in DOMAIN md |->
        LET m == Matches(pn, md[i]) IN
        [j \in 1..Len(m) |->
            [node_id |-> md[i], root_id |-> ntr[md[i]],
             node_label |-> m[j].primary_label,
             node_all_labels |-> m[j].all_labels]]])
\* line 221: .merge(root_labels, on='root_id', how='left')
MergeRootLabels(left, pn) ==
    Concat([i \in DOMAIN left |->
        LET m == Matches(pn, left[i].root_id) IN
        [j \in 1..Len(m) |->
            [node_id |-> left[i].node_id, root_id |-> left[i].root_id,
             node_label |-> left[i].node_label,
             node_all_labels |-> left[i].node_all_labels,
             root_label |-> m[j].primary_label,
             root_all_labels |-> m[j].all_labels]]])

\* the cells of a row of the nodes table
Text(t) == [type |-> "str", text |-> t]
NaN == [type |-> "nan", text |-> <<>>]
LongLabel == [i \in 1..(SheetNameMax + 1) |-> "L"]
NodeCells ==
    {[labels |-> NaN, properties |-> NaN],
     [labels |-> Text(<<"[", "A", "]">>),
      properties |-> Text(<<"{", "name", ":", " ", "x", "}">>)],
     [labels |-> Text(<<"[", "A", ",", " ", "B", "]">>),
      properties |-> Text(<<"{", "arn", ":", " ", "a", "/", "b", "}">>)],
     [labels |-> Text(<<"[", "A", ",", " ", "B", "]">>),
      properties |-> Text(<<"{", "name", ":", " ", "x", ",", " ",
                             "arn", ":", " ", "a", "/", "b", "}">>)],
     [labels |-> Text(<<"[", "A", "B", ",", " ", "A", ":", "B", "]">>),
      properties |-> Text(<<"{", "arn", ":", " ", "b", "}">>)],
     [labels |-> Text(<<"[", "A", "]">>),
      properties |-> Text(<<"{", "arn", ":", " ", ":", "b", "}">>)],
     [labels |-> Text(<<"[">> \o LongLabel \o <<",", " ">> \o Tail(LongLabel) \o <<"]">>),
      properties |-> NaN],
     [labels |-> Text(<<"[", "B", "]">>),
      properties |-> Text(<<"[", "1", "]">>)]}

\* ------------------------------------------- process_nodes on a single row
ResolverOff ==
    /\ nodes_df = {}
    /\ relationships_df = <<>>
    /\ root_nodes = {}
    /\ parent_map = EmptyMap
    /\ memo = EmptyMap
    /\ node_to_root = EmptyMap
    /\ pc = "off"
    /\ todo = {}
    /\ n = 0
    /\ visited = {}
    /\ queue = <<>>
    /\ adds = ZeroCount
    /\ puts = ZeroCount
    /\ order = <<>>
    /\ run = 1
    /\ first = EmptyMap

\* the labels(n) cells of that row
LabelCells == {NaN, Text(<<"[", "A", ",", " ", "B", "]">>)}

\* process_nodes has reached line 66 for the row with id 1, whose properties(n)
\* is any cell
InitParse ==
    /\ ResolverOff
    /\ PipelineIdle
    /\ DockerIdle
    /\ prop_string \in Cells
    /\ \E l \in LabelCells :
          node_rows = <<[id |-> 1, labels |-> l, properties |-> prop_string]>>
    /\ parsed_nodes = <<>>
    /\ node_to_name = EmptyMap
    /\ sheets = EmptyMap
    /\ result_df = <<>>
    /\ rpc = "off"
    /\ returned = [kind |-> "none", map |-> EmptyMap, val |-> <<>>]
    /\ ppc = "call"

\* line 35 raises: pd.isna is False and the cell has no method strip
ParsePropertiesRaises ==
    /\ ppc = "call"
    /\ ~IsNa(prop_string) /\ ~IsStr(prop_string)
    /\ ppc' = "aborted"
    /\ UNCHANGED <<docker, resolver, pipeline, report, prop_string, returned>>

\* lines 35-36: return {}
ParsePropertiesEmpty ==
    /\ ppc = "call"
    /\ IsEmptyBlob(prop_string)
    /\ returned' = parse_properties(prop_string)
    /\ ppc' = "returned"
    /\ UNCHANGED <<docker, resolver, pipeline, report, prop_string>>

\* lines 37-46: return json.loads(cleaned)
ParsePropertiesDecoded ==
    /\ ppc = "call"
    /\ IsStr(prop_string) /\ ~IsEmptyBlob(prop_string)
    /\ json_loads(Cleaned(prop_string.text)).ok
    /\ returned' = parse_properties(prop_string)
    /\ ppc' = "returned"
    /\ UNCHANGED <<docker, resolver, pipeline, report, prop_string>>

\* lines 47-48: except: return {"raw_properties": prop_string}
ParsePropertiesDegraded ==
    /\ ppc = "call"
    /\ IsStr(prop_string) /\ ~IsEmptyBlob(prop_string)
    /\ ~json_loads(Cleaned(prop_string.text)).ok
    /\ returned' = parse_properties(prop_string)
    /\ ppc' = "returned"
    /\ UNCHANGED <<docker, resolver, pipeline, report, prop_string>>

\* process_nodes line 67: properties['node_id'] = node_id, on a dict
ProcessNodesSetsId ==
    /\ ppc = "returned"
    /\ returned.kind = "dict"
    /\ returned' = [returned EXCEPT !.map = Put(@, NodeIdKey, Num(ToString(node_rows[1].id)))]
    /\ ppc' = "row"
    /\ UNCHANGED <<docker, resolver, pipeline, report, prop_string>>

\* process_nodes line 67 on a list, str, number, bool or None: TypeError,
\* lines 81-83 log and re-raise
ProcessNodesTypeError ==
    /\ ppc = "returned"
    /\ returned.kind # "dict"
    /\ ppc' = "aborted"
    /\ UNCHANGED <<docker, resolver, pipeline, report, prop_string, returned>>

\* lines 69-77: one dict per label, then self.parsed_nodes = pd.DataFrame(...)
ProcessNodesAppend ==
    /\ ppc = "row"
    /\ LET labels == parse_labels(node_rows[1].labels) IN
       parsed_nodes' = [j \in 1..Len(labels) |->
                           ExpandedRow(node_rows[1].id, labels[j], labels, returned.map)]
    /\ ppc' = "rows"
    /\ UNCHANGED <<docker, resolver, pipeline, prop_string, returned,
                   node_rows, node_to_name, sheets, result_df, rpc>>

NextParse ==
    \/ ParsePropertiesRaises
    \/ ParsePropertiesEmpty
    \/ ParsePropertiesDecoded
    \/ ParsePropertiesDegraded
    \/ ProcessNodesSetsId
    \/ ProcessNodesTypeError
    \/ ProcessNodesAppend

SpecParse == InitParse /\ [][NextParse]_vars

\* load_data has returned: a nodes table with the ids 1..k and a
\* relationships table over the ids 1..DbMaxId
InitReport ==
    /\ \E k \in 0..DbMaxId :
          /\ nodes_df = 1..k
          /\ \E c \in [1..k -> NodeCells] :
                node_rows = [i \in 1..k |->
                                [id |-> i, labels |-> c[i].labels,
                                 properties |-> c[i].properties]]
    /\ relationships_df \in
          UNION {[1..m -> [source_id : DbIds, target_id : DbIds]] : m \in 0..DbMaxEdges}
    /\ root_nodes = {}
    /\ parent_map = EmptyMap
    /\ memo = EmptyMap
    /\ node_to_root = EmptyMap
    /\ pc = "off"
    /\ todo = {}
    /\ n = 0
    /\ visited = {}
    /\ queue = <<>>
    /\ adds = ZeroCount
    /\ puts = ZeroCount
    /\ order = <<>>
    /\ run = 1
    /\ first = EmptyMap
    /\ PipelineIdle
    /\ ParserIdle
    /\ DockerIdle
    /\ parsed_nodes = <<>>
    /\ node_to_name = EmptyMap
    /\ sheets = EmptyMap
    /\ result_df = <<>>
    /\ rpc = "loaded"

\* process_nodes: a cell on which lines 66-67 raise aborts it
DpProcessNodes ==
    /\ rpc = "loaded"
    /\ IF \A i \in DOMAIN node_rows : SetsNodeId(node_rows[i].properties)
       THEN /\ parsed_nodes' = Concat([i \in DOMAIN node_rows |-> ExpandedRows(node_rows[i])])
            /\ rpc' = "processed"
       ELSE /\ rpc' = "failed"
            /\ UNCHANGED parsed_nodes
    /\ UNCHANGED <<docker, resolver, pipeline, parser, node_rows, node_to_name, sheets, result_df>>

\* find_node_roots, the loop taking the order ord
DpFindNodeRoots(ord) ==
    /\ rpc = "processed"
    /\ ord \in Perms(nodes_df)
    /\ node_to_root' = find_node_roots(nodes_df, relationships_df, node_to_root, ord)
    /\ order' = ord
    /\ rpc' = "resolved"
    /\ UNCHANGED <<docker, nodes_df, relationships_df, root_nodes, parent_map, memo, pc, todo,
                   n, visited, queue, adds, puts, run, first, pipeline, parser,
                   node_rows, parsed_nodes, node_to_name, sheets, result_df>>

\* create_excel_by_labels: without any ExpandedRow the DataFrame has no column
\* primary_label and groupby raises KeyError
DpCreateExcelByLabels ==
    /\ rpc = "resolved"
    /\ IF parsed_nodes = <<>>
       THEN /\ rpc' = "failed"
            /\ UNCHANGED <<node_to_name, sheets>>
       ELSE /\ node_to_name' = BuildNames(parsed_nodes)
            /\ sheets' = WriteGroups(PrimaryLabels(parsed_nodes), EmptyMap, parsed_nodes,
                                     node_to_root, BuildNames(parsed_nodes))
            /\ rpc' = "sheets"
    /\ UNCHANGED <<docker, resolver, pipeline, parser, node_rows, parsed_nodes, result_df>>

\* create_node_root_mapping_excel: with no pair to report the merge on
\* node_id raises KeyError
DpCreateNodeRootMappingExcel ==
    /\ rpc = "sheets"
    /\ IF mapping_df(node_to_root, order) = <<>>
       THEN /\ rpc' = "failed"
            /\ UNCHANGED result_df
       ELSE /\ result_df' = MergeRootLabels(
                                MergeNodeLabels(node_to_root, order, parsed_nodes),
                                parsed_nodes)
            /\ rpc' = "mapped"
    /\ UNCHANGED <<docker, resolver, pipeline, parser, node_rows, parsed_nodes, node_to_name, sheets>>

NextReport ==
    \/ DpProcessNodes
    \/ \E ord \in UNION {Perms(1..k) : k \in 0..DbMaxId} : DpFindNodeRoots(ord)
    \/ DpCreateExcelByLabels
    \/ DpCreateNodeRootMappingExcel

SpecReport == InitReport /\ [][NextReport]_vars

\* ------------------------------------------- start_cartography_container
\* A path is the list of its components; an absolute path starts with "/".
MaxWaitMinutes == 20
SecondsPerMinute == 60
SleepSeconds == 30
\* "./tmp/aws-creds" of lines 155, 160, 163 and 201
CredsDir == <<".", "tmp", "aws-creds">>
\* "/tmp/aws-creds" of line 207
ErrorCleanupDir == <<"/", "tmp", "aws-creds">>
\* the working directories the service may run in
Cwds == {<<"/">>, <<"/", "app">>}
\* the directory a path names to the operating system, given the working
\* directory: an absolute path names itself, a relative one is taken from cwd
Resolve(dir, path) == IF Head(path) = "/" THEN path ELSE dir \o Tail(path)
\* subprocess.run(["rm", "-rf", path], check=False)
Rm(existing, dir, path) == existing \ {Resolve(dir, path)}
\* docker inspect --format {{.State.Status}}: the statuses of a container,
\* and "error" for an inspect that exits non-zero
Statuses == {"running", "exited", "created", "paused", "dead", "error"}

\* start_cartography_container is called; either directory may be there
\* already, left by an earlier call or made by someone else
InitDocker ==
    /\ ResolverOff
    /\ PipelineIdle
    /\ ParserIdle
    /\ ReportIdle
    /\ cwd \in Cwds
    /\ dirs \in SUBSET ({Resolve(c, CredsDir) : c \in Cwds} \cup {ErrorCleanupDir})
    /\ downloaded = FALSE
    /\ waited_seconds = 0
    /\ dkpc = "call"

\* lines 132-152: GCSManager(), get_config() and the two checks, each of which
\* may raise
StartCartographyConfig(raises) ==
    /\ dkpc = "call"
    /\ dkpc' = IF raises THEN "except" ELSE "config"
    /\ UNCHANGED <<resolver, pipeline, parser, report, cwd, dirs, downloaded, waited_seconds>>

\* lines 155-163: makedirs, then the download and chmod, which may raise
DownloadCredentials(raises) ==
    /\ dkpc = "config"
    /\ dirs' = dirs \cup {Resolve(cwd, CredsDir)}
    /\ downloaded' = ~raises
    /\ dkpc' = IF raises THEN "except" ELSE "credentials"
    /\ UNCHANGED <<resolver, pipeline, parser, report, cwd, waited_seconds>>

\* lines 165-195: docker run through run_command, which raises when docker
\* exits non-zero or times out; then wait_for_container_completion is entered
RunCartography(raises) ==
    /\ dkpc = "credentials"
    /\ waited_seconds' = 0
    /\ dkpc' = IF raises THEN "except" ELSE "wait"
    /\ UNCHANGED <<resolver, pipeline, parser, report, cwd, dirs, downloaded>>

\* lines 218-252, a pass of the while loop with status running: sleep
WaitRunning ==
    /\ dkpc = "wait"
    /\ waited_seconds < MaxWaitMinutes * SecondsPerMinute
    /\ waited_seconds' = waited_seconds + SleepSeconds
    /\ UNCHANGED <<resolver, pipeline, parser, report, cwd, dirs, downloaded, dkpc>>

\* lines 229-248, a pass with status exited: return True on exit code 0,
\* raise otherwise
WaitExited(exit_code) ==
    /\ dkpc = "wait"
    /\ waited_seconds < MaxWaitMinutes * SecondsPerMinute
    /\ dkpc' = IF exit_code = 0 THEN "cleanup" ELSE "except"
    /\ UNCHANGED <<resolver, pipeline, parser, report, cwd, dirs, downloaded, waited_seconds>>

\* lines 253-258, a pass with any other status, or with docker inspect
\* failing: raise
WaitUnexpected(status) ==
    /\ dkpc = "wait"
    /\ waited_seconds < MaxWaitMinutes * SecondsPerMinute
    /\ status \notin {"running", "exited"}
    /\ dkpc' = "except"
    /\ UNCHANGED <<resolver, pipeline, parser, report, cwd, dirs, downloaded, waited_seconds>>

\* lines 260-261 and 196-197: the loop ends on the time limit, return False
WaitTimedOut ==
    /\ dkpc = "wait"
    /\ ~(waited_seconds < MaxWaitMinutes * SecondsPerMinute)
    /\ dkpc' = "cleanup"
    /\ UNCHANGED <<resolver, pipeline, parser, report, cwd, dirs, downloaded, waited_seconds>>

\* lines 200-203: rm -rf ./tmp/aws-creds, log_completion, return
CleanUpTempFiles ==
    /\ dkpc = "cleanup"
    /\ dirs' = Rm(dirs, cwd, CredsDir)
    /\ dkpc' = "returned"
    /\ UNCHANGED <<resolver, pipeline, parser, report, cwd, downloaded, waited_seconds>>

\* lines 205-209: except Exception: rm -rf /tmp/aws-creds, log_failure, raise
CleanUpOnError ==
    /\ dkpc = "except"
    /\ dirs' = Rm(dirs, cwd, ErrorCleanupDir)
    /\ dkpc' = "raised"
    /\ UNCHANGED <<resolver, pipeline, parser, report, cwd, downloaded, waited_seconds>>

NextDocker ==
    \/ \E raises \in BOOLEAN : StartCartographyConfig(raises)
    \/ \E raises \in BOOLEAN : DownloadCredentials(raises)
    \/ \E raises \in BOOLEAN : RunCartography(raises)
    \/ WaitRunning
    \/ \E exit_code \in {0, 1} : WaitExited(exit_code)
    \/ \E status \in Statuses : WaitUnexpected(status)
    \/ WaitTimedOut
    \/ CleanUpTempFiles
    \/ CleanUpOnError

SpecDocker == InitDocker /\ [][NextDocker]_vars

\* --------------------------------------------- vocabulary of the properties
\* RootSet: the node ids that never appear as target_id of an edge
RootSet == {x \in nodes_df :
              \A i \in DOMAIN relationships_df : relationships_df[i].target_id # x}

GraphIds == nodes_df \cup SourceIds(relationships_df) \cup TargetIds(relationships_df)

\* the ids reachable from the ids of S by following edges from target to source
RECURSIVE Ancestry(_)
Ancestry(S) ==
    LET up == {relationships_df[i].source_id :
                 i \in {j \in DOMAIN relationships_df :
                          relationships_df[j].target_id \in S}}
    IN IF up \subseteq S THEN S ELSE Ancestry(S \cup up)

Rootless(x) == Ancestry({x}) \cap RootSet = {}

Finished == pc = "done"

RECURSIVE SumOver(_, _)
SumOver(f, S) ==
    IF S = {} THEN 0
    ELSE LET x == CHOOSE y \in S : TRUE IN f[x] + SumOver(f, S \ {x})

\* ------------------------------------------------------------ properties

\* C1 (Totality): once find_node_roots has completed, node_to_root has an
\* entry for every node id and each entry is the node itself or a member of
\* RootSet.
C1_Totality ==
    Finished =>
        /\ DOMAIN node_to_root = nodes_df
        /\ \A x \in nodes_df : node_to_root[x] = x \/ node_to_root[x] \in RootSet

\* a completed run that mapped one node to another node, a root, and left a
\* node that is no root mapped to itself
C1_Witness ==
    /\ Finished
    /\ \E x \in nodes_df : node_to_root[x] # x /\ node_to_root[x] \in RootSet
    /\ \E x \in nodes_df \ RootSet : node_to_root[x] = x

\* C2 (Order-independence): whatever order the loop took, the completed
\* node_to_root is the mapping the ascending order produces, i.e. all orders
\* produce one and the same mapping.
C2_OrderIndependent ==
    Finished =>
        node_to_root =
            find_node_roots(nodes_df, relationships_df, EmptyMap, Ascending(nodes_df))

\* C3 (UnresolvedRoot): a node from which no RootSet member is reachable by
\* following edges from target to source is mapped to itself, whatever was
\* resolved before it.
C3_RootlessMapsToSelf ==
    Finished => \A x \in nodes_df : Rootless(x) => node_to_root[x] = x

\* C4 (Termination): within one traversal no id is added to visited more than
\* once, the number of additions is at most the number of distinct ids of the
\* graph, the queue receives at most one entry per edge row besides the start
\* node, and every traversal that starts returns.
C4_Bounded ==
    /\ \A i \in Ids : adds[i] <= 1
    /\ visited \subseteq GraphIds
    /\ SumOver(adds, Ids) <= Cardinality(GraphIds)
    /\ SumOver(puts, Ids) <= 1 + Len(relationships_df)
C4_Termination == []C4_Bounded /\ (pc = "bfs" ~> pc = "loop")

\* a traversal that has returned after walking round a cycle or a duplicate
\* edge: it met an id again that it had already expanded
C4_Witness ==
    /\ pc = "loop"
    /\ n \in nodes_df \ todo
    /\ Cardinality(visited) >= 2
    /\ \E i \in visited : puts[i] >= 2

\* C5 (Idempotence): a second find_node_roots on the same DataProcessor, over
\* the same nodes and edges and in the same order, leaves node_to_root equal
\* to the mapping of the first run.
C5_Idempotent == (run = 2 /\ Finished) => node_to_root = first

\* the second run has completed on a graph where some node has a root other
\* than itself and the memo of the first run ended different from its result
C5_Witness ==
    /\ run = 2
    /\ Finished
    /\ \E x \in nodes_df : first[x] # x
    /\ \E x \in nodes_df : memo[x] # first[x]

\* C6 (Forest): when the edges form a forest over the nodes, every node is
\* mapped to the root that following its parent links leads to, in every
\* processing order.
IncomingRows(x) == RowsInto(relationships_df, x)
RECURSIVE Climb(_, _)
Climb(x, fuel) ==
    IF IncomingRows(x) = <<>> THEN x
    ELSE IF fuel = 0 THEN 0
    ELSE Climb(IncomingRows(x)[1].source_id, fuel - 1)
IsForest ==
    /\ GraphIds \subseteq nodes_df
    /\ \A x \in nodes_df : Len(IncomingRows(x)) <= 1
    /\ \A x \in nodes_df : Climb(x, Cardinality(nodes_df)) # 0
C6_ForestRoot ==
    (Finished /\ IsForest) =>
        \A x \in nodes_df : node_to_root[x] = Climb(x, Cardinality(nodes_df))

\* a completed run on a forest with a chain root -> child -> grandchild
C6_Witness ==
    /\ Finished
    /\ IsForest
    /\ \E x \in nodes_df :
          /\ IncomingRows(x) # <<>>
          /\ IncomingRows(x)[1].source_id # node_to_root[x]

\* C7 (Scenario B): when RootSet is empty, find_node_roots runs to completion
\* and maps every node to itself.
C7_NoRootAllSelf ==
    (pc = "idle" /\ RootSet = {})
        ~> (Finished /\ \A x \in nodes_df : node_to_root[x] = x)

\* a completed run over the two-node cycle shape: no root, and a node that
\* has a parent other than itself
C7_Witness ==
    /\ Finished
    /\ RootSet = {}
    /\ Cardinality(nodes_df) >= 2
    /\ \E x \in nodes_df : \E i \in DOMAIN relationships_df :
          /\ relationships_df[i].target_id = x
          /\ relationships_df[i].source_id \in nodes_df \ {x}
    /\ \A x \in nodes_df : node_to_root[x] = x

\* C8 (Dangling edges): with edges whose source_id or target_id is no node id,
\* find_node_roots runs to completion, the keys of node_to_root are exactly
\* the node ids, and no value is a dangling id.
HasDangling == ~(GraphIds \subseteq nodes_df)
C8_Outcome ==
    /\ Finished
    /\ DOMAIN node_to_root = nodes_df
    /\ \A x \in nodes_df : node_to_root[x] \in nodes_df
C8_DanglingTolerated == (pc = "idle" /\ HasDangling) ~> C8_Outcome

\* a completed run in which a traversal walked over a dangling source id
C8_Witness ==
    /\ C8_Outcome
    /\ nodes_df # {}
    /\ visited \ nodes_df # {}
    /\ TargetIds(relationships_df) \ nodes_df # {}

\* C9 (No partial output on failure): when a processing run has returned the
\* error response, it has written none of its output tables.
C9_NoPartialOutput ==
    \A r \in Requests : req[r].pc = "error" => req[r].wrote = {}

\* C10 (Run isolation): whatever other requests do in between, a run loads
\* the nodes and edges that it exported itself, and its node_to_root is a
\* resolution of exactly those.
AfterLoad == {"process", "roots", "labels", "mapping", "upload", "ok"}
AfterRoots == {"labels", "mapping", "upload", "ok"}
C10_RunIsolation ==
    \A r \in Requests :
        /\ req[r].pc \in AfterLoad =>
              /\ req[r].nodes_df = req[r].my_nodes
              /\ req[r].relationships_df = req[r].my_rels
        /\ req[r].pc \in AfterRoots =>
              \E ord \in Perms(req[r].my_nodes) :
                  req[r].node_to_root =
                      find_node_roots(req[r].my_nodes, req[r].my_rels, EmptyMap, ord)

\* C11 (Self-mapping exclusion): the root-mapping table has no row with
\* node_id = root_id, and every node whose root is another node has a row.
C11_SelfMappingExcluded ==
    rpc = "mapped" =>
        /\ \A i \in DOMAIN result_df : result_df[i].node_id # result_df[i].root_id
        /\ \A x \in DOMAIN node_to_root :
              node_to_root[x] # x =>
                  \E i \in DOMAIN result_df :
                      /\ result_df[i].node_id = x
                      /\ result_df[i].root_id = node_to_root[x]

\* the table was built from a mapping that holds a self-mapping as well
C11_Witness ==
    /\ rpc = "mapped"
    /\ result_df # <<>>
    /\ \E x \in DOMAIN node_to_root : node_to_root[x] = x

\* C12 (One row per pair): the root-mapping table has exactly one row for each
\* pair (n, node_to_root[n]) with n # node_to_root[n], and its label columns
\* are those of the first ExpandedRow of n and of the root.
RowsOfPair(x) ==
    SelectSeq(result_df, LAMBDA r : r.node_id = x /\ r.root_id = node_to_root[x])
C12_OneRowPerPair ==
    rpc = "mapped" =>
        \A x \in DOMAIN node_to_root :
            node_to_root[x] # x =>
                /\ Len(RowsOfPair(x)) = 1
                /\ RowsOfPair(x)[1].node_label = FirstRow(parsed_nodes, x).primary_label
                /\ RowsOfPair(x)[1].root_label =
                       FirstRow(parsed_nodes, node_to_root[x]).primary_label

\* C13 (Row-count law): after process_nodes the number of ExpandedRows is the
\* sum over the nodes of the length of the parsed label list, a node without
\* label field has one row, every label occurrence has its row, and the rows
\* of a node carry the same property values.
RECURSIVE SumLabels(_)
SumLabels(rows) ==
    IF rows = <<>> THEN 0
    ELSE Len(parse_labels(Head(rows).labels)) + SumLabels(Tail(rows))
Processed == rpc \in {"processed", "resolved", "sheets", "mapped"}
C13_RowCount ==
    Processed =>
        /\ Len(parsed_nodes) = SumLabels(node_rows)
        /\ \A i \in DOMAIN node_rows :
              /\ IsNa(node_rows[i].labels) => Len(Matches(parsed_nodes, node_rows[i].id)) = 1
              /\ Len(Matches(parsed_nodes, node_rows[i].id))
                     = Len(parse_labels(node_rows[i].labels))
              /\ \A j \in DOMAIN parse_labels(node_rows[i].labels) :
                     Matches(parsed_nodes, node_rows[i].id)[j].primary_label
                         = parse_labels(node_rows[i].labels)[j]
        /\ \A i, j \in DOMAIN parsed_nodes :
              parsed_nodes[i].node_id = parsed_nodes[j].node_id =>
                  parsed_nodes[i].props = parsed_nodes[j].props

\* process_nodes has returned for a table with a node of two labels that has
\* properties and a node without label field
C13_Witness ==
    /\ rpc = "processed"
    /\ \E i \in DOMAIN node_rows : IsNa(node_rows[i].labels)
    /\ \E i \in DOMAIN node_rows :
          /\ Len(parse_labels(node_rows[i].labels)) = 2
          /\ DOMAIN parse_properties(node_rows[i].properties).map # {}

\* C14 (Label-table annotation): every row of every label table has
\* root_id = node_to_root[node_id] and account_name = the display name of
\* that root; the root is an existing node, so the name is defined.
C14_Annotation ==
    \A nm \in DOMAIN sheets :
        \A i \in DOMAIN sheets[nm] :
            LET r == sheets[nm][i] IN
            /\ r.root_id = node_to_root[r.node_id]
            /\ r.root_id \in nodes_df
            /\ r.root_id \in DOMAIN node_to_name
            /\ r.account_name = node_to_name[r.root_id]

\* a table holds a row of a node whose root is another node with another
\* display name
C14_Witness ==
    \E nm \in DOMAIN sheets :
        \E i \in DOMAIN sheets[nm] :
            LET r == sheets[nm][i] IN
            /\ r.root_id # r.node_id
            /\ node_to_name[r.root_id] # node_to_name[r.node_id]
            /\ r.account_name = node_to_name[r.root_id]

\* C15 (One table per label): the label workbook has exactly one sheet per
\* distinct primary_label, and every sheet name is non-empty and at most 31
\* characters long.
C15_OneSheetPerLabel ==
    DOMAIN sheets # {} =>
        /\ Cardinality(DOMAIN sheets) = Cardinality(PrimaryLabels(parsed_nodes))
        /\ \A nm \in DOMAIN sheets : nm # <<>> /\ Len(nm) <= SheetNameMax

\* C16 (Display-name priority): the display name of a node is its name
\* property when present; otherwise, when it has an arn, the last segment of
\* the arn split on / or :; otherwise Node_<id>.
LastSegment(t) ==
    LET cuts == {i \in DOMAIN t : t[i] \in {"/", ":"}} IN
    IF cuts = {} THEN t
    ELSE SubSeq(t, (CHOOSE i \in cuts : \A j \in cuts : j <= i) + 1, Len(t))
ClaimedName(row) ==
    IF Notna(row, NameKey) THEN TextOf(row.props[NameKey])
    ELSE IF Notna(row, ArnKey) THEN LastSegment(TextOf(row.props[ArnKey]))
    ELSE <<"Node_", ToString(row.node_id)>>
C16_DisplayNamePriority ==
    \A id \in DOMAIN node_to_name :
        node_to_name[id] = ClaimedName(FirstRow(parsed_nodes, id))

\* C17 (Degrade gracefully): parse_properties never raises and always returns
\* a key/value mapping; for a blob whose normalized text does not decode to a
\* key/value object it returns exactly {raw_properties: blob}; so no cell
\* aborts process_nodes.
DecodesToMapping(cell) ==
    /\ IsStr(cell)
    /\ LET r == json_loads(Cleaned(cell.text)) IN r.ok /\ r.kind = "dict"
C17_DegradeGracefully ==
    /\ ppc # "aborted"
    /\ ppc = "returned" =>
          /\ returned.kind = "dict"
          /\ (IsStr(prop_string) /\ ~DecodesToMapping(prop_string)) =>
                 returned.map = RawProperties(prop_string)

\* C18 (Round trip): a mapping from keys to strings, numbers, booleans and
\* null, written as the relaxed blob {key: value, ...}, is returned by
\* parse_properties unchanged, every value with its type.
ScalarValues ==
    {Str(<<"x">>), Str(<<"x", " ", "y">>), Num("1"), Bool("true"), Bool("false"), Null}
ScalarMappings == UNION {[D -> ScalarValues] : D \in SUBSET {<<k>> : k \in Keys}}
WriteValue(v) == IF v[1] = "str" THEN Tail(v) ELSE IF v = Null THEN <<"null">> ELSE <<v[2]>>
WriteEntry(m, k) == k \o <<":", " ">> \o WriteValue(m[k])
Write(m) ==
    LET ka == <<"a">>
        kb == <<"b">>
    IN <<"{">>
         \o (IF ka \in DOMAIN m THEN WriteEntry(m, ka) ELSE <<>>)
         \o (IF DOMAIN m = {ka, kb} THEN <<",", " ">> ELSE <<>>)
         \o (IF kb \in DOMAIN m THEN WriteEntry(m, kb) ELSE <<>>)
         \o <<"}">>
C18_RoundTrip ==
    \A m \in ScalarMappings :
        (ppc = "returned" /\ prop_string = [type |-> "str", text |-> Write(m)]) =>
            /\ returned.kind = "dict"
            /\ returned.map = m

\* C19 (Enqueued at most once): within one traversal of find_root no id is
\* put on the queue more than once, also with diamond-shaped ancestry or
\* duplicate edge rows.
C19_EnqueuedOnce == \A i \in Ids : puts[i] <= 1

\* C19 as amended: within one traversal an id is expanded (added to visited,
\* its parents queued) at most once, and it is put on the queue exactly once
\* per edge row leading from it to an expanded id, plus once when it is the
\* start node.
RowsToExpanded(i) ==
    SelectSeq(relationships_df, LAMBDA e : e.source_id = i /\ e.target_id \in visited)
C19_ExpandedOnce ==
    pc = "bfs" =>
        \A i \in Ids :
            /\ adds[i] <= 1
            /\ puts[i] = (IF i = n THEN 1 ELSE 0) + Len(RowsToExpanded(i))

\* a traversal that queued an id twice, expanded it once and has already
\* dropped the second copy
C19_Witness ==
    /\ pc = "bfs"
    /\ \E i \in visited :
          /\ puts[i] >= 2
          /\ adds[i] = 1
          /\ \A k \in DOMAIN queue : queue[k] # i

\* C20 (Stop and compress): the step that ends a traversal from n either
\* dequeues the first RootSet node r it meets, expands nothing, and writes
\* memo[v] = r for exactly the ids v of visited (r included), all other memo
\* entries staying as they were; or it ends on the empty queue and writes
\* only memo[n] = n. A traversal never passes over a RootSet node.
MemoFrame(S) ==
    /\ DOMAIN memo' = DOMAIN memo \cup S
    /\ \A v \in DOMAIN memo \ S : memo'[v] = memo[v]
C20_Return ==
    (pc = "bfs" /\ pc' = "loop") =>
        IF queue # <<>>
        THEN LET r == Head(queue) IN
             /\ r \in RootSet
             /\ visited \cap RootSet = {}
             /\ visited' = visited \cup {r}
             /\ puts' = puts
             /\ node_to_root'[n] = r
             /\ MemoFrame(visited')
             /\ \A v \in visited' : memo'[v] = r
        ELSE /\ node_to_root'[n] = n
             /\ MemoFrame({n})
             /\ memo'[n] = n
C20_Stops ==
    (pc = "bfs" /\ queue # <<>> /\ Head(queue) \in RootSet) => pc' = "loop"
C21_RowFields ==
    ppc = "rows" =>
        LET labels == parse_labels(node_rows[1].labels) IN
        /\ Len(parsed_nodes) = Len(labels)
        /\ \A j \in 1..Len(labels) :
              /\ parsed_nodes[j].node_id = node_rows[1].id
              /\ parsed_nodes[j].primary_label = labels[j]
              /\ parsed_nodes[j].all_labels = Join(labels, "|")

\* C22 (Empty blob): for a missing value, the text {} with or without blanks
\* around it, and a text of blanks only or of no characters, parse_properties
\* returns the empty mapping.
EmptyOrPlaceholder(cell) ==
    \/ IsNa(cell)
    \/ IsStr(cell) /\ Strip(cell.text) \in {<<"{", "}">>, <<>>}
C22_EmptyBlob ==
    (ppc = "returned" /\ EmptyOrPlaceholder(prop_string)) =>
        /\ returned.kind = "dict"
        /\ returned.map = EmptyMap

\* C23 (Root is an ancestor): whenever node_to_root maps a node to another
\* id, that id is reachable from the node by following edges from target to
\* source, whatever the processing order.
C23_RootIsAncestor ==
    \A x \in DOMAIN node_to_root :
        node_to_root[x] # x => node_to_root[x] \in Ancestry({x})

\* C24 (Memo write-once): during a run of find_node_roots no step replaces
\* the value of an existing memo entry, and when the run has completed
\* memo[x] = node_to_root[x] for every node id x.
C24_NoOverwrite == \A v \in DOMAIN memo : v \in DOMAIN memo' /\ memo'[v] = memo[v]
C24_MemoAgrees ==
    Finished => \A x \in nodes_df : x \in DOMAIN memo /\ memo[x] = node_to_root[x]
C24_MemoWriteOnce == [][C24_NoOverwrite]_vars /\ []C24_MemoAgrees

\* C25 (Roots map to themselves): every RootSet member that has an entry in
\* node_to_root is mapped to itself, and after a completed run every RootSet
\* member has an entry, whatever the processing order.
C25_RootMapsToSelf ==
    \A r \in RootSet :
        /\ r \in DOMAIN node_to_root => node_to_root[r] = r
        /\ Finished => r \in DOMAIN node_to_root

\* a completed run with two roots, one of which ended the last traversal, from
\* another node, and so was written by its path compression
C25_Witness ==
    /\ Finished
    /\ Cardinality(RootSet) >= 2
    /\ \E r \in RootSet \cap visited :
          /\ n # r
          /\ node_to_root[n] = r
          /\ memo[r] = r
          /\ node_to_root[r] = r

\* C26 (Fallback only for rootless ancestry): a node from which a RootSet
\* member is reachable by following edges from target to source is mapped to
\* a RootSet member, whatever the processing order.
C26_FallbackOnlyRootless ==
    \A x \in DOMAIN node_to_root : ~Rootless(x) => node_to_root[x] \in RootSet

\* a completed run with a node on a cycle that has a root above it and is
\* mapped to a root, and a node without any root above it that is mapped to
\* itself
C26_Witness ==
    /\ Finished
    /\ \E x \in nodes_df \ RootSet :
          /\ ~Rootless(x)
          /\ \E i \in DOMAIN relationships_df :
                relationships_df[i].source_id = x /\ relationships_df[i].target_id = x
          /\ node_to_root[x] \in RootSet
    /\ \E y \in nodes_df : Rootless(y) /\ node_to_root[y] = y

\* C27 (Credential cleanup): when start_cartography_container has downloaded
\* the credentials and then returns or raises, the directory ./tmp/aws-creds
\* no longer exists.
C27_CredentialCleanup ==
    (dkpc \in {"returned", "raised"} /\ downloaded) => Resolve(cwd, CredsDir) \notin dirs
====
